---- MODULE Spec2Model ----
(***************************************************************************)
(* Model of the interaction-template ODE modeller (System, Interaction,    *)
(* InteractionDefinition, Rule, Species, Parameter).  Expression trees are *)
(* math.js Node objects: they live in a heap so that references, clones    *)
(* and in-place renames behave as they do in JavaScript.                   *)
(***************************************************************************)
EXTENDS Integers, Sequences, FiniteSets, TLC

\* ------------------------------------------------------------------- state
\* species       System.species, in key order: [id, value, rate_law]
\* parameters    System.parameters, in key order: [id, value]
\* interactions  System.interactions: the InteractionDefinition of each name
\* _interactions System._interactions: the Interaction instances
\* model         System.model
\* heap          the Node objects of all expressions
\* last          the last call, its arguments and how it ended
\* config        System.config
\* sim           a Simulation the caller holds: the one simulate or concat
\*               returned last, or one the caller constructed
\* state_history the Simulation that simulate_in_real_time returned
\* timers        the intervals set with setInterval
\* running       the interval callbacks that were started and have not
\*               returned, with the solution each has computed
VARIABLES species, parameters, interactions, _interactions, model, heap, last,
          config, sim, state_history, timers, running

vars == <<species, parameters, interactions, _interactions, model, heap, last,
          config, sim, state_history, timers, running>>

\* ------------------------------------------------------------------ bounds
MaxInstances == 2

MaxInstancesSys == 3

\* Instances in the list while species are added and removed.
MaxInstancesSpecies == 1

\* The real-time loop is followed until the history reaches this time.
MaxTime == 3

\* Intervals set on a page, the first by simulate_in_real_time.
MaxIntervals == 2

\* Samples of a Simulation that concat is still called on.
MaxSamples == 3

\* ------------------------------------------------- expression trees (values)
NULL == 0

SymbolNode(n) == [type |-> "SymbolNode", name |-> n, args |-> <<>>]

ConstantNode(v) == [type |-> "ConstantNode", name |-> v, args |-> <<>>]

OperatorNode(op, params) == [type |-> "OperatorNode", name |-> op, args |-> params]

Digits == {"0", "1", "2"}

Range(s) == {s[i] : i \in 1..Len(s)}

IndexOf(s, x) == IF x \in Range(s) THEN CHOOSE i \in 1..Len(s) : s[i] = x /\ \A j \in 1..(i-1) : s[j] # x ELSE 0

\* math.parse: recursive descent, unary minus binds tighter than "*",
\* "*" tighter than "+" and "-", binary operators associate to the left.
RECURSIVE parseAddSubtract(_)
RECURSIVE parseAddRest(_, _)
RECURSIVE parseMultiplyDivide(_)
RECURSIVE parseMulRest(_, _)
RECURSIVE parseUnary(_)
RECURSIVE parseAtom(_)

parseAtom(toks) ==
    IF Head(toks) = "("
    THEN LET r == parseAddSubtract(Tail(toks)) IN [node |-> r.node, rest |-> Tail(r.rest)]
    ELSE IF Head(toks) \in Digits
         THEN [node |-> ConstantNode(Head(toks)), rest |-> Tail(toks)]
         ELSE [node |-> SymbolNode(Head(toks)), rest |-> Tail(toks)]

parseUnary(toks) ==
    IF Head(toks) = "-"
    THEN LET r == parseUnary(Tail(toks)) IN [node |-> OperatorNode("-", <<r.node>>), rest |-> r.rest]
    ELSE parseAtom(toks)

parseMulRest(lhs, toks) ==
    IF toks # <<>> /\ Head(toks) = "*"
    THEN LET r == parseUnary(Tail(toks)) IN parseMulRest(OperatorNode("*", <<lhs, r.node>>), r.rest)
    ELSE [node |-> lhs, rest |-> toks]

parseMultiplyDivide(toks) ==
    LET r == parseUnary(toks) IN parseMulRest(r.node, r.rest)

parseAddRest(lhs, toks) ==
    IF toks # <<>> /\ Head(toks) \in {"+", "-"}
    THEN LET r == parseMultiplyDivide(Tail(toks))
         IN parseAddRest(OperatorNode(Head(toks), <<lhs, r.node>>), r.rest)
    ELSE [node |-> lhs, rest |-> toks]

parseAddSubtract(toks) ==
    LET r == parseMultiplyDivide(toks) IN parseAddRest(r.node, r.rest)

parse(toks) == parseAddSubtract(toks).node

\* Node.toString: an operand that is itself an OperatorNode is parenthesised.
RECURSIVE toString(_)
toStringOperand(n) ==
    IF n.type = "OperatorNode" THEN <<"(">> \o toString(n) \o <<")">> ELSE toString(n)

toString(n) ==
    IF n.type # "OperatorNode" THEN <<n.name>>
    ELSE IF Len(n.args) = 1 THEN <<n.name>> \o toStringOperand(n.args[1])
    ELSE toStringOperand(n.args[1]) \o <<n.name>> \o toStringOperand(n.args[2])

\* ------------------------------------------------------- the heap of Nodes
\* A heap is a sequence of Node objects; a reference is an index, NULL is no
\* object.  A Node's args are references.
HeapNode(t, refs) == [type |-> t.type, name |-> t.name, args |-> refs]

\* Build the Node objects of a tree value (what math.parse returns).
RECURSIVE Alloc(_, _)
Alloc(h, t) ==
    IF Len(t.args) = 0
    THEN [heap |-> Append(h, HeapNode(t, <<>>)), root |-> Len(h) + 1]
    ELSE LET c1 == Alloc(h, t.args[1]) IN
         IF Len(t.args) = 1
         THEN [heap |-> Append(c1.heap, HeapNode(t, <<c1.root>>)), root |-> Len(c1.heap) + 1]
         ELSE LET c2 == Alloc(c1.heap, t.args[2]) IN
              [heap |-> Append(c2.heap, HeapNode(t, <<c1.root, c2.root>>)),
               root |-> Len(c2.heap) + 1]

\* The tree value a reference denotes.
RECURSIVE TreeOf(_, _)
TreeOf(h, r) ==
    [type |-> h[r].type, name |-> h[r].name,
     args |-> IF Len(h[r].args) = 0 THEN <<>>
              ELSE IF Len(h[r].args) = 1 THEN <<TreeOf(h, h[r].args[1])>>
              ELSE <<TreeOf(h, h[r].args[1]), TreeOf(h, h[r].args[2])>>]

\* The set of Node objects reachable from a reference.
RECURSIVE NodesOf(_, _)
NodesOf(h, r) ==
    IF r = NULL THEN {}
    ELSE {r} \cup UNION {NodesOf(h, h[r].args[i]) : i \in 1..Len(h[r].args)}

\* expression.filter(node.type == 'SymbolNode'): references, in traversal order.
RECURSIVE filterSymbolNodes(_, _)
filterSymbolNodes(h, r) ==
    IF h[r].type = "SymbolNode" THEN <<r>>
    ELSE IF Len(h[r].args) = 0 THEN <<>>
    ELSE IF Len(h[r].args) = 1 THEN filterSymbolNodes(h, h[r].args[1])
    ELSE filterSymbolNodes(h, h[r].args[1]) \o filterSymbolNodes(h, h[r].args[2])

\* Rule.set(expression): this.expression = math.parse(expression)
RuleSet(h, text) == Alloc(h, parse(text))

\* Node.clone() of the expression service.  What it copies depends on the
\* version of the service the page loads: the whole tree, or the node alone,
\* whose copy then refers to the children of the original.
Copies == {"deep", "shallow"}

clone(h, r, copy) ==
    IF copy = "deep" THEN Alloc(h, TreeOf(h, r))
    ELSE [heap |-> Append(h, h[r]), root |-> Len(h) + 1]

\* ------------------------------------------------------------------ inputs
\* Species and parameter identifiers.  "b" is at once a species id and a
\* local variable symbol of the templates, "q" a parameter id and a local
\* parameter symbol.
SpeciesIds == {"X", "b"}

ParameterIds == {"p", "q"}

InitialValues == {1}

ParameterValues == {2}

TemplateNames == <<"decay", "pair">>

\* defineInteraction(name, species) calls
Definitions == {<<"decay", <<"a">>>>, <<"pair", <<"a", "b", "g">>>>}

\* rules[variable].set(text) calls; a text is its token sequence
TxtDecay == <<"-", "k", "*", "a">>

TxtTwice == <<"q", "*", "a", "-", "q">>

TxtPairA == <<"u", "*", "a", "*", "(", "k", "-", "b", ")">>

TxtPairB == <<"-", "k", "*", "b">>

RuleTexts == {<<"decay", "a", TxtDecay>>, <<"decay", "a", TxtTwice>>,
              <<"pair", "a", TxtPairA>>, <<"pair", "b", TxtPairB>>}

TxtPairG == <<"k", "*", "g", "+", "u">>

TxtZero == <<"0">>

\* the set(text) calls of the template specification
RuleTextsAll == RuleTexts \cup {<<"pair", "b", TxtTwice>>, <<"pair", "g", TxtPairG>>,
                                <<"decay", "a", TxtZero>>}

\* addInteraction(id, v_args, p_args) calls of the binding specification
Calls == {<<"decay", <<"X">>, <<"p">>>>,
          <<"decay", <<"b">>, <<"q">>>>,
          <<"decay", <<"X">>, <<"p", "q">>>>,
          <<"decay", <<"X", "b">>, <<"p">>>>,
          <<"decay", <<>>, <<"p">>>>,
          <<"decay", <<"X">>, <<>>>>,
          <<"pair", <<"X", "X", "b">>, <<"p", "q">>>>,
          <<"pair", <<"b", "X", "X">>, <<"q", "p">>>>,
          <<"pair", <<"X", "b">>, <<"p", "q">>>>}

\* addInteraction calls of the compile specification
CallsSys == {<<"decay", <<"X">>, <<"p">>>>,
             <<"decay", <<"b">>, <<"q">>>>,
             <<"pair", <<"X", "b", "b">>, <<"p", "q">>>>}

\* new Rule(): expression = null
Rule(variable) == [key |-> variable, expression |-> NULL]

Keys(rules) == [i \in 1..Len(rules) |-> rules[i].key]

\* InteractionDefinition.addRule: this.rules[variable] = new Rule()
addRule(rules, variable) ==
    IF variable \in Range(Keys(rules))
    THEN [rules EXCEPT ![IndexOf(Keys(rules), variable)] = Rule(variable)]
    ELSE Append(rules, Rule(variable))

RECURSIVE addRules(_, _)
addRules(rules, species_arg) ==
    IF species_arg = <<>> THEN rules
    ELSE addRules(addRule(rules, Head(species_arg)), Tail(species_arg))

\* function InteractionDefinition(system, name, species)
InteractionDefinition(name, species_arg) ==
    [defined |-> TRUE, name |-> name, rules |-> addRules(<<>>, species_arg)]

Undefined == [defined |-> FALSE, name |-> "", rules |-> <<>>]

\* InteractionDefinition.variables
variables(def) == Keys(def.rules)

\* InteractionDefinition.parameters: per rule, the symbol nodes whose name is
\* neither a variable nor in the list collected from the earlier rules.
\* A scan in which a rule without an expression gives its own key as a name.
RECURSIVE parametersFromKeyed(_, _, _, _)
parametersFromKeyed(h, rules, vs, collected) ==
    IF rules = <<>> THEN collected
    ELSE IF Head(rules).expression = NULL
         THEN parametersFromKeyed(h, Tail(rules), vs, Append(collected, Head(rules).key))
    ELSE LET keep(node) == h[node].name \notin Range(vs) /\ h[node].name \notin Range(collected)
             p_nodes == SelectSeq(filterSymbolNodes(h, Head(rules).expression), keep)
             p_names == [i \in 1..Len(p_nodes) |-> h[p_nodes[i]].name]
         IN parametersFromKeyed(h, Tail(rules), vs, collected \o p_names)

RECURSIVE parametersFrom(_, _, _, _)
parametersFrom(h, rules, vs, collected) ==
    IF rules = <<>> THEN collected
    ELSE IF Head(rules).expression = NULL THEN parametersFrom(h, Tail(rules), vs, collected)
    ELSE LET keep(node) == h[node].name \notin Range(vs) /\ h[node].name \notin Range(collected)
             p_nodes == SelectSeq(filterSymbolNodes(h, Head(rules).expression), keep)
             p_names == [i \in 1..Len(p_nodes) |-> h[p_nodes[i]].name]
         IN parametersFrom(h, Tail(rules), vs, collected \o p_names)

parameters_(h, def) == parametersFrom(h, def.rules, variables(def), <<>>)

\* new_rule.expression = old_rule.expression: no copy is made
cloneExpressionShared(h, old) == [heap |-> h, root |-> old]

\* new_rule.set(old_rule.expression.toString())
cloneExpression(h, old) == RuleSet(h, toString(TreeOf(h, old)))

\* The clone loop of the Interaction constructor; thrown when a rule of the
\* base has an expression and this.rules has no rule at that position.
RECURSIVE cloneRules(_, _, _, _)
cloneRules(h, base_rules, this_rules, i_r) ==
    IF i_r > Len(base_rules) THEN [heap |-> h, rules |-> this_rules, thrown |-> FALSE]
    ELSE IF base_rules[i_r].expression = NULL THEN cloneRules(h, base_rules, this_rules, i_r + 1)
    ELSE IF i_r > Len(this_rules) THEN [heap |-> h, rules |-> this_rules, thrown |-> TRUE]
    ELSE LET c == cloneExpression(h, base_rules[i_r].expression)
         IN cloneRules(c.heap, base_rules,
                       [this_rules EXCEPT ![i_r].expression = c.root], i_r + 1)

\* symbol_table[ids[i_arg]] = args[i_arg], for i_arg = 0 .. args.length-1
EmptyTable == [x \in {} |-> ""]

RECURSIVE mapArguments(_, _, _, _)
mapArguments(table, ids, args, i_arg) ==
    IF i_arg > Len(args) THEN table
    ELSE mapArguments([x \in DOMAIN table \cup {ids[i_arg]} |->
                          IF x = ids[i_arg] THEN args[i_arg] ELSE table[x]],
                      ids, args, i_arg + 1)

\* the renamed node is looked up in the symbol table again
substituteNodeTwice(h, node, symbol_table) ==
    LET once == IF h[node].name \in DOMAIN symbol_table THEN symbol_table[h[node].name]
                ELSE h[node].name
    IN [h EXCEPT ![node].name = IF once \in DOMAIN symbol_table THEN symbol_table[once] ELSE once]

\* if (symbol_table has node.name) node.name = symbol_table[node.name]
substituteNode(h, node, symbol_table) ==
    IF h[node].name \in DOMAIN symbol_table
    THEN [h EXCEPT ![node].name = symbol_table[h[node].name]]
    ELSE h

RECURSIVE substituteNodes(_, _, _)
substituteNodes(h, nodes, symbol_table) ==
    IF nodes = <<>> THEN h
    ELSE substituteNodes(substituteNode(h, Head(nodes), symbol_table), Tail(nodes), symbol_table)

RECURSIVE substituteRules(_, _, _, _)
substituteRules(h, rules, symbol_table, i) ==
    IF i > Len(rules) THEN h
    ELSE IF rules[i].expression = NULL THEN substituteRules(h, rules, symbol_table, i + 1)
    ELSE substituteRules(
             substituteNodes(h, filterSymbolNodes(h, rules[i].expression), symbol_table),
             rules, symbol_table, i + 1)

Ids(registry) == [i \in 1..Len(registry) |-> registry[i].id]

\* function Interaction(base, v_args, p_args): the constructed object (its
\* rules), the heap after construction and how the constructor ended.
Interaction(h, sp, ps, base, v_args, p_args) ==
    LET this == InteractionDefinition(base.name, v_args)
        cl == cloneRules(h, base.rules, this.rules, 1)
        v_ids == variables(base)
        p_ids == parameters_(h, base)
        symbol_table == mapArguments(mapArguments(EmptyTable, v_ids, v_args, 1), p_ids, p_args, 1)
        made(result, hp) == [heap |-> hp, name |-> base.name, rules |-> cl.rules, result |-> result]
    IN IF cl.thrown THEN [heap |-> h, name |-> base.name, rules |-> <<>>, result |-> "TypeError"]
       ELSE IF \E i \in 1..Len(v_args) : v_args[i] \notin Range(Ids(sp))
            THEN made("UnknownSpecies", cl.heap)
       ELSE IF \E i \in 1..Len(p_args) : p_args[i] \notin Range(Ids(ps))
            THEN made("UnknownParameter", cl.heap)
       ELSE IF Len(v_args) # Len(v_ids) \/ Len(p_args) # Len(p_ids)
            THEN made("ArityMismatch", cl.heap)
       ELSE made("ok", substituteRules(cl.heap, cl.rules, symbol_table, 1))

\* ---------------------------------------------------- arrays and registries
\* Entries of System.model: null, a hole of the array, or a compiled
\* expression (the tree the evaluator was generated from).
NullEntry == [type |-> "null", name |-> "", args |-> <<>>]

Hole == [type |-> "undefined", name |-> "", args |-> <<>>]

\* array[i] = v on a JavaScript array (i counted from 1 here)
SetAt(array, i, v) ==
    [j \in 1..(IF i > Len(array) THEN i ELSE Len(array)) |->
        IF j = i THEN v ELSE IF j <= Len(array) THEN array[j] ELSE Hole]

\* array.splice(start, 1) with start counted from 0; -1 is the last element
splice(array, start) ==
    LET from == IF start < 0 THEN (IF Len(array) + start < 0 THEN 0 ELSE Len(array) + start)
                ELSE start
    IN [j \in 1..(IF from < Len(array) THEN Len(array) - 1 ELSE Len(array)) |->
           IF j <= from THEN array[j] ELSE array[j + 1]]

\* _interactions.unshift(i)
unshift(array, i) == <<i>> \o array

\* _interactions.push(i)
push(array, i) == Append(array, i)

\* math.compile of an expression: the evaluator of the tree as it is now
compileNode(h, r) == TreeOf(h, r)

\* ------------------------------------------------- unreachable Node objects
\* Node objects no field refers to any more are dropped and the live ones
\* renumbered in the order the fields reach them, so that a state is the
\* object graph and not the allocation history.
RECURSIVE Flatten(_)
Flatten(ss) == IF ss = <<>> THEN <<>> ELSE Head(ss) \o Flatten(Tail(ss))

RuleRoots(rules) == [i \in 1..Len(rules) |-> rules[i].expression]

Roots(sp, defs, insts) ==
    Flatten([i \in 1..Len(TemplateNames) |-> RuleRoots(defs[TemplateNames[i]].rules)])
    \o Flatten([i \in 1..Len(insts) |-> RuleRoots(insts[i].rules)])
    \o [i \in 1..Len(sp) |-> sp[i].rate_law]

RECURSIVE Walk(_, _, _)
Walk(h, todo, seen) ==
    IF todo = <<>> THEN seen
    ELSE IF Head(todo) = NULL \/ Head(todo) \in Range(seen) THEN Walk(h, Tail(todo), seen)
    ELSE Walk(h, h[Head(todo)].args \o Tail(todo), Append(seen, Head(todo)))


\* A System value: the fields of the System object and the heap they refer to.
SystemOf(sp, ps, defs, insts, mdl, h) ==
    LET live == Walk(h, Roots(sp, defs, insts), <<>>)
        to(r) == IF r = NULL THEN NULL ELSE IndexOf(live, r)
        moveRules(rules) == [i \in 1..Len(rules) |-> [rules[i] EXCEPT !.expression = to(@)]]
    IN [species |-> [i \in 1..Len(sp) |-> [sp[i] EXCEPT !.rate_law = to(@)]],
        parameters |-> ps,
        interactions |-> [n \in DOMAIN defs |-> [defs[n] EXCEPT !.rules = moveRules(@)]],
        instances |-> [i \in 1..Len(insts) |-> [insts[i] EXCEPT !.rules = moveRules(@)]],
        model |-> mdl,
        heap |-> [i \in 1..Len(live) |->
                     [h[live[i]] EXCEPT !.args = [j \in 1..Len(@) |-> to(@[j])]]]]

\* ------------------------------------------------------------------ System
\* Each method is a function from the System it is called on to the System
\* it leaves and the way the call ended.
Returned(S, result) == [state |-> S, result |-> result]

\* var System = { species: {}, parameters: {}, interactions: {}, _interactions: [], model: [] }
System ==
    [species |-> <<>>, parameters |-> <<>>,
     interactions |-> [n \in Range(TemplateNames) |-> Undefined],
     instances |-> <<>>, model |-> <<>>, heap |-> <<>>]

\* new Species(initial_value, name)
Species(identifier, initial_value) ==
    [id |-> identifier, value |-> initial_value, rate_law |-> NULL]

\* registry[identifier] = entry: an existing key keeps its position
Register(registry, entry) ==
    IF entry.id \in Range(Ids(registry))
    THEN [registry EXCEPT ![IndexOf(Ids(registry), entry.id)] = entry]
    ELSE Append(registry, entry)

\* delete registry[identifier]
Unregister(registry, identifier) == SelectSeq(registry, LAMBDA e : e.id # identifier)

addSpecies(S, identifier, initial_value) ==
    LET sp == Register(S.species, Species(identifier, initial_value))
    IN Returned(SystemOf(sp, S.parameters, S.interactions, S.instances,
                         SetAt(S.model, Len(sp), NullEntry), S.heap), "ok")

addParameter(S, identifier, value) ==
    Returned([S EXCEPT !.parameters = Register(@, [id |-> identifier, value |-> value])], "ok")

defineInteraction(S, name, species_arg) ==
    Returned(SystemOf(S.species, S.parameters,
                      [S.interactions EXCEPT ![name] = InteractionDefinition(name, species_arg)],
                      S.instances, S.model, S.heap), "ok")

\* interactions[name].rules[variable].set(text)
setRule(S, name, variable, text) ==
    IF ~S.interactions[name].defined \/ variable \notin Range(variables(S.interactions[name]))
    THEN Returned(S, "TypeError")
    ELSE LET s == RuleSet(S.heap, text)
             i_r == IndexOf(variables(S.interactions[name]), variable)
         IN Returned(SystemOf(S.species, S.parameters,
                              [S.interactions EXCEPT ![name].rules[i_r].expression = s.root],
                              S.instances, S.model, s.heap), "ok")

addInteraction(S, id, v_args, p_args) ==
    IF ~S.interactions[id].defined THEN Returned(S, "TypeError")
    ELSE LET i == Interaction(S.heap, S.species, S.parameters, S.interactions[id], v_args, p_args)
         IN IF i.result = "TypeError" THEN Returned(S, "TypeError")
            ELSE Returned(SystemOf(S.species, S.parameters, S.interactions,
                                   push(S.instances, [name |-> i.name, rules |-> i.rules]),
                                   S.model, i.heap), i.result)

\* the instances left by removeInteractionsBySpecies(identifiers)
withoutSpecies(insts, identifiers) ==
    SelectSeq(insts, LAMBDA i : \A t \in Range(identifiers) : t \notin Range(Keys(i.rules)))

removeInteractionsBySpecies(S, identifiers) ==
    Returned(SystemOf(S.species, S.parameters, S.interactions,
                      withoutSpecies(S.instances, identifiers), S.model, S.heap), "ok")

\* A removal that stops at the first instance it finds, the newest.
removeNewestByName(S, name) ==
    LET found == {i \in 1..Len(S.instances) : S.instances[i].name = name}
        newest == CHOOSE i \in found : \A j \in found : j <= i
    IN Returned(SystemOf(S.species, S.parameters, S.interactions,
                         IF found = {} THEN S.instances ELSE splice(S.instances, newest - 1),
                         S.model, S.heap), "ok")

removeInteractionsByName(S, name) ==
    Returned(SystemOf(S.species, S.parameters, S.interactions,
                      SelectSeq(S.instances, LAMBDA i : i.name # name), S.model, S.heap), "ok")

\* A removal that drops the last entry of the model, whichever species goes.
removeSpeciesLastEntry(S, identifier) ==
    Returned(SystemOf(Unregister(S.species, identifier), S.parameters, S.interactions,
                      withoutSpecies(S.instances, <<identifier>>),
                      splice(S.model, -1), S.heap), "ok")

removeSpecies(S, identifier) ==
    Returned(SystemOf(Unregister(S.species, identifier), S.parameters, S.interactions,
                      withoutSpecies(S.instances, <<identifier>>),
                      splice(S.model, IndexOf(Ids(S.species), identifier) - 1), S.heap), "ok")

\* new OperatorNode('+', 'add', [previous, term])
addNode(h, previous, term) ==
    [heap |-> Append(h, [type |-> "OperatorNode", name |-> "+", args |-> <<previous, term>>]),
     root |-> Len(h) + 1]

\* compile, the loop over the rules of one instance: a rule with an
\* expression whose key is no registered species throws.
RECURSIVE gatherRules(_, _, _, _, _)
gatherRules(h, sp, rules, i_p, copy) ==
    IF i_p > Len(rules) THEN [heap |-> h, species |-> sp, thrown |-> FALSE]
    ELSE LET expression == rules[i_p].expression
             k == IndexOf(Ids(sp), rules[i_p].key)
         IN IF expression = NULL THEN gatherRules(h, sp, rules, i_p + 1, copy)
            ELSE IF k = 0 THEN [heap |-> h, species |-> sp, thrown |-> TRUE]
            ELSE LET c == clone(h, expression, copy)
                     r == IF sp[k].rate_law = NULL THEN c
                          ELSE addNode(c.heap, sp[k].rate_law, c.root)
                 IN gatherRules(r.heap, [sp EXCEPT ![k].rate_law = r.root], rules, i_p + 1, copy)

RECURSIVE gatherInteractions(_, _, _, _, _)
gatherInteractions(h, sp, insts, i, copy) ==
    IF i > Len(insts) THEN [heap |-> h, species |-> sp, thrown |-> FALSE]
    ELSE LET g == gatherRules(h, sp, insts[i].rules, 1, copy)
         IN IF g.thrown THEN g ELSE gatherInteractions(g.heap, g.species, insts, i + 1, copy)

\* compile, the loop that fills System.model
RECURSIVE compileModel(_, _, _, _)
compileModel(h, sp, mdl, i_sp) ==
    IF i_sp > Len(sp) THEN mdl
    ELSE compileModel(h, sp,
                      SetAt(mdl, i_sp, IF sp[i_sp].rate_law # NULL
                                       THEN compileNode(h, sp[i_sp].rate_law)
                                       ELSE parse(<<"0">>)),
                      i_sp + 1)

\* for (var sp in this.species) this.species[sp].rate_law.expression = null
resetRateLaws(sp) == [i \in 1..Len(sp) |-> [sp[i] EXCEPT !.rate_law = NULL]]

\* compile() with the service copying as copy says
compileWith(S, copy) ==
    LET g == gatherInteractions(S.heap, resetRateLaws(S.species), S.instances, 1, copy)
    IN Returned(SystemOf(g.species, S.parameters, S.interactions, S.instances,
                         IF g.thrown THEN S.model ELSE compileModel(g.heap, g.species, S.model, 1),
                         g.heap),
                IF g.thrown THEN "TypeError" ELSE "ok")

\* compile() where only the expressions matter, which are the same for
\* either copy
compile(S) == compileWith(S, "deep")

\* ------------------------------------------------- what a page starts with
\* function Config(): the fields update_state reads.  Times are counted in
\* whole units, so that refresh_rate / 1000 * t_scale is a whole number.
Config(t_scale, buffer_size) ==
    [refresh_rate |-> 1000, t_scale |-> t_scale, buffer_size |-> buffer_size]

\* A variable that holds no Simulation yet.
NoSimulation == [time |-> <<>>, trajectory |-> <<>>, real_time_simulation |-> NULL]

\* The timers of the page: how many were created, the intervals that are
\* active, and the intervals whose callback is due.
NoTimers == [count |-> 0, active |-> {}, pending |-> {}]

\* ------------------------------------------------------------------ actions
Cur ==
    [species |-> species, parameters |-> parameters, interactions |-> interactions,
     instances |-> _interactions, model |-> model, heap |-> heap]

IsSystem(S) ==
    /\ species = S.species
    /\ parameters = S.parameters
    /\ interactions = S.interactions
    /\ _interactions = S.instances
    /\ model = S.model
    /\ heap = S.heap

\* A page with a System and nothing else.
Is(S) ==
    /\ IsSystem(S)
    /\ config = Config(1, 2)
    /\ sim = NoSimulation
    /\ state_history = NoSimulation
    /\ timers = NoTimers
    /\ running = <<>>

Returns(r, op, id, v_args, p_args) ==
    /\ species' = r.state.species
    /\ parameters' = r.state.parameters
    /\ interactions' = r.state.interactions
    /\ _interactions' = r.state.instances
    /\ model' = r.state.model
    /\ heap' = r.state.heap
    /\ last' = [op |-> op, result |-> r.result, id |-> id, v_args |-> v_args, p_args |-> p_args]

\* A call of a System method that touches no Simulation and no timer.
Becomes(r, op, id, v_args, p_args) ==
    /\ Returns(r, op, id, v_args, p_args)
    /\ UNCHANGED <<config, sim, state_history, timers, running>>

Constructed == [op |-> "new", result |-> "ok", id |-> "", v_args |-> <<>>, p_args |-> <<>>]

\* A script: calls made one after the other, as the demonstration script does.
Call(S, c) ==
    CASE c[1] = "addSpecies" -> addSpecies(S, c[2], c[3]).state
      [] c[1] = "addParameter" -> addParameter(S, c[2], c[3]).state
      [] c[1] = "defineInteraction" -> defineInteraction(S, c[2], c[3]).state
      [] c[1] = "set" -> setRule(S, c[2], c[3], c[4]).state
      [] c[1] = "addInteraction" -> addInteraction(S, c[2], c[3], c[4]).state
      [] c[1] = "compile" -> compile(S).state

RECURSIVE Run(_, _)
Run(S, script) == IF script = <<>> THEN S ELSE Run(Call(S, Head(script)), Tail(script))

\* The set-up part of a script: species, parameters, the two templates.
Setup(s_ids, p_ids, text) ==
    [i \in 1..Len(s_ids) |-> <<"addSpecies", s_ids[i], 1>>]
    \o [i \in 1..Len(p_ids) |-> <<"addParameter", p_ids[i], 2>>]
    \o << <<"defineInteraction", "decay", <<"a">>>>,
          <<"set", "decay", "a", text>>,
          <<"defineInteraction", "pair", <<"a", "b", "g">>>>,
          <<"set", "pair", "a", TxtPairA>>,
          <<"set", "pair", "b", TxtPairB>> >>

FirstRun == << <<"addInteraction", "decay", <<"X">>, <<"p">>>>, <<"compile">> >>

AfterScript == [op |-> "script", result |-> "ok", id |-> "", v_args |-> <<>>, p_args |-> <<>>]

AddSpecies ==
    \E s \in SpeciesIds, v \in InitialValues :
        Becomes(addSpecies(Cur, s, v), "addSpecies", s, <<>>, <<>>)

AddParameter ==
    \E p \in ParameterIds, v \in ParameterValues :
        Becomes(addParameter(Cur, p, v), "addParameter", p, <<>>, <<>>)

DefineInteraction ==
    \E d \in Definitions :
        Becomes(defineInteraction(Cur, d[1], d[2]), "defineInteraction", d[1], d[2], <<>>)

SetRule(texts) ==
    \E r \in texts : Becomes(setRule(Cur, r[1], r[2], r[3]), "set", r[1], <<r[2]>>, <<>>)

AddInteraction(calls, max) ==
    \E c \in calls :
        /\ Len(_interactions) < max
        /\ Becomes(addInteraction(Cur, c[1], c[2], c[3]), "addInteraction", c[1], c[2], c[3])

RemoveInteractionsBySpecies ==
    \E s \in SpeciesIds :
        Becomes(removeInteractionsBySpecies(Cur, <<s>>), "removeInteractionsBySpecies",
                "", <<s>>, <<>>)

RemoveInteractionsByName ==
    \E n \in Range(TemplateNames) :
        Becomes(removeInteractionsByName(Cur, n), "removeInteractionsByName", n, <<>>, <<>>)

RemoveSpecies ==
    \E s \in SpeciesIds : Becomes(removeSpecies(Cur, s), "removeSpecies", s, <<>>, <<>>)

Compile == \E copy \in Copies : Becomes(compileWith(Cur, copy), "compile", "", <<>>, <<>>)

\* ---------------------------------------------------------- specifications
\* Templates: a new System on which templates are defined and rules set.
InitDefine == Is(System) /\ last = Constructed

NextDefine == DefineInteraction \/ SetRule(RuleTextsAll)

SpecDefine == InitDefine /\ [][NextDefine]_vars

\* Binding: a System set up by a script, on which instances are added and
\* removed.
InitBind ==
    \E s_ids \in {<<"X">>, <<"X", "b">>}, p_ids \in {<<"p">>, <<"p", "q">>},
       text \in {TxtDecay, TxtTwice}, run \in {<<>>, FirstRun} :
        Is(Run(System, Setup(s_ids, p_ids, text) \o run)) /\ last = AfterScript

NextBind == AddInteraction(Calls, MaxInstances) \/ RemoveInteractionsByName

SpecBind == InitBind /\ [][NextBind]_vars

\* Compiling: a System set up by a script, on which instances are added and
\* removed and compile is called.
InitCompile ==
    \E s_ids \in {<<"X">>, <<"X", "b">>} :
        Is(Run(System, Setup(s_ids, <<"p", "q">>, TxtDecay))) /\ last = AfterScript

NextCompile ==
    AddInteraction(CallsSys, MaxInstancesSys) \/ RemoveInteractionsByName \/ Compile

SpecCompile == InitCompile /\ [][NextCompile]_vars

\* A template with a rule that is never set: 'pair' on a and b, of which
\* only the rule of a gets an expression, as the rules of 'third-order
\* agonist' and 'third-order antagonist' of the demonstration.
SetupUnset ==
    << <<"addSpecies", "X", 1>>, <<"addSpecies", "b", 1>>,
       <<"addParameter", "p", 2>>, <<"addParameter", "q", 2>>,
       <<"defineInteraction", "decay", <<"a">>>>,
       <<"set", "decay", "a", TxtDecay>>,
       <<"defineInteraction", "pair", <<"a", "b">>>>,
       <<"set", "pair", "a", TxtPairA>> >>

CallsUnset == {<<"pair", <<"X", "b">>, <<"p", "q">>>>,
               <<"pair", <<"b", "X">>, <<"q", "p">>>>,
               <<"decay", <<"X">>, <<"p">>>>}

InitUnset == \E S \in {Run(System, SetupUnset)} : Is(S) /\ last = AfterScript

NextUnset ==
    AddInteraction(CallsUnset, MaxInstancesSys) \/ RemoveInteractionsByName \/ Compile

SpecUnset == InitUnset /\ [][NextUnset]_vars

\* The whole System, from construction.
Init == Is(System) /\ last = Constructed

Next ==
    \/ AddSpecies
    \/ AddParameter
    \/ DefineInteraction
    \/ SetRule(RuleTexts)
    \/ AddInteraction(Calls, MaxInstances)
    \/ RemoveInteractionsBySpecies
    \/ RemoveInteractionsByName
    \/ RemoveSpecies
    \/ Compile

Spec == Init /\ [][Next]_vars

\* ------------------------------------------------------------------- views
\* The expressions of the state as tree values, for comparing states.
ExpressionOf(h, r) == IF r = NULL THEN NullEntry ELSE TreeOf(h, r)

RulesView(h, rules) ==
    [i \in 1..Len(rules) |->
        [key |-> rules[i].key, expression |-> ExpressionOf(h, rules[i].expression)]]

TemplatesView ==
    [n \in Range(TemplateNames) |->
        [defined |-> interactions[n].defined, rules |-> RulesView(heap, interactions[n].rules)]]

InstancesView ==
    [i \in 1..Len(_interactions) |->
        [name |-> _interactions[i].name, rules |-> RulesView(heap, _interactions[i].rules)]]

SpeciesView ==
    [i \in 1..Len(species) |->
        [id |-> species[i].id, value |-> species[i].value,
         rate_law |-> ExpressionOf(heap, species[i].rate_law)]]

\* The value of a ConstantNode.
NumberOf(name) == CASE name = "0" -> 0 [] name = "1" -> 1 [] name = "2" -> 2

\* Compiled expression .eval(scope): the value, or no value when a symbol is
\* not in the scope or the entry is not an expression.
RECURSIVE eval(_, _)
eval(t, scope) ==
    LET none == [ok |-> FALSE, value |-> 0]
        some(v) == [ok |-> TRUE, value |-> v]
    IN IF t.type = "ConstantNode" THEN some(NumberOf(t.name))
       ELSE IF t.type = "SymbolNode"
            THEN IF t.name \in DOMAIN scope THEN some(scope[t.name]) ELSE none
       ELSE IF t.type # "OperatorNode" THEN none
       ELSE LET x == eval(t.args[1], scope) IN
            IF Len(t.args) = 1
            THEN IF x.ok THEN some(0 - x.value) ELSE none
            ELSE LET y == eval(t.args[2], scope) IN
                 IF ~(x.ok /\ y.ok) THEN none
                 ELSE IF t.name = "+" THEN some(x.value + y.value)
                 ELSE IF t.name = "-" THEN some(x.value - y.value)
                 ELSE some(x.value * y.value)

\* The values a species or a parameter takes in a scope.
ScopeValues == {0, 1, 2}

\* The scopes dY builds: a value for each species and each parameter.
Scopes == [Range(Ids(species)) \cup Range(Ids(parameters)) -> ScopeValues]

\* ------------------------------------------------------------ integration
\* A sample of a trajectory: a number, or no number (a hole left by
\* Array(n), undefined, NaN).
Number(v) == [defined |-> TRUE, value |-> v]

NoData == [defined |-> FALSE, value |-> 0]

\* dY with the state vector read from its end
dYReversed(S, y) ==
    LET ids == Ids(S.species)
        ps == Ids(S.parameters)
        n == IF Len(y) < Len(ids) THEN Len(y) ELSE Len(ids)
        scope == [name \in {ids[i] : i \in 1..n} \cup Range(ps) |->
                     IF name \in Range(ps) THEN S.parameters[IndexOf(ps, name)].value
                     ELSE y[Len(y) + 1 - IndexOf(ids, name)]]
        dy == [i \in 1..Len(y) |->
                  IF i > Len(S.model) THEN [ok |-> FALSE, value |-> 0]
                  ELSE eval(S.model[i], scope)]
    IN [thrown |-> \E i \in 1..Len(y) : ~dy[i].ok,
        dy |-> [i \in 1..Len(y) |-> dy[i].value]]

\* dY with a scope in which every other name is 0
dYDefaultZero(S, y) ==
    LET ids == Ids(S.species)
        ps == Ids(S.parameters)
        n == IF Len(y) < Len(ids) THEN Len(y) ELSE Len(ids)
        names == {S.heap[r].name : r \in 1..Len(S.heap)}
        scope == [name \in {ids[i] : i \in 1..n} \cup Range(ps) \cup names |->
                     IF name \in Range(ps) THEN S.parameters[IndexOf(ps, name)].value
                     ELSE IF name \in {ids[i] : i \in 1..n} THEN y[IndexOf(ids, name)]
                     ELSE 0]
        dy == [i \in 1..Len(y) |->
                  IF i > Len(S.model) THEN [ok |-> FALSE, value |-> 0]
                  ELSE eval(S.model[i], scope)]
    IN [thrown |-> \E i \in 1..Len(y) : ~dy[i].ok,
        dy |-> [i \in 1..Len(y) |-> dy[i].value]]

\* dY(t, y, [system]): the scope maps the species ids to y and the parameters
\* to their values, and entry i of the model is evaluated in it.  A model
\* entry that is missing or null, or a symbol that is not in the scope, throws.
dY(S, y) ==
    LET ids == Ids(S.species)
        ps == Ids(S.parameters)
        n == IF Len(y) < Len(ids) THEN Len(y) ELSE Len(ids)
        scope == [name \in {ids[i] : i \in 1..n} \cup Range(ps) |->
                     IF name \in Range(ps) THEN S.parameters[IndexOf(ps, name)].value
                     ELSE y[IndexOf(ids, name)]]
        dy == [i \in 1..Len(y) |->
                  IF i > Len(S.model) THEN [ok |-> FALSE, value |-> 0]
                  ELSE eval(S.model[i], scope)]
    IN [thrown |-> \E i \in 1..Len(y) : ~dy[i].ok,
        dy |-> [i \in 1..Len(y) |-> dy[i].value]]

\* The sample times of an integration from t0 to tf: t0 first, tf last,
\* increasing, the steps in between chosen by the integrator.
RECURSIVE Ascending(_)
Ascending(ts) ==
    IF ts = {} THEN <<>>
    ELSE LET t == CHOOSE x \in ts : \A z \in ts : x <= z
         IN <<t>> \o Ascending(ts \ {t})

Grids(t0, tf) ==
    IF tf <= t0 THEN {<<t0>>}
    ELSE {Ascending({t0, tf} \cup inner) : inner \in SUBSET ((t0 + 1)..(tf - 1))}

\* The states at the sample times: the initial values first, then one step
\* of yf[i] = y0[i] + dy[i] * t_step from each sample to the next.
RECURSIVE Steps(_, _, _, _)
Steps(S, grid, k, Y) ==
    IF k > Len(grid) THEN [thrown |-> FALSE, y |-> Y]
    ELSE LET y0 == Y[k - 1]
             d == dY(S, y0)
             t_step == grid[k] - grid[k - 1]
         IN IF d.thrown THEN [thrown |-> TRUE, y |-> Y]
            ELSE Steps(S, grid, k + 1,
                       Append(Y, [i \in 1..Len(y0) |-> y0[i] + d.dy[i] * t_step]))

\* numeric.dopri(t0, tf, y0, system.dY, ..., [system]) on the sample times grid
dopri(S, grid, y0) ==
    LET first == dY(S, y0)
        rest == Steps(S, grid, 2, <<y0>>)
    IN [given |-> TRUE, x |-> grid, y |-> rest.y, thrown |-> first.thrown \/ rest.thrown,
        finite |-> TRUE]

NoSolution == [given |-> FALSE, x |-> <<>>, y |-> <<>>, thrown |-> FALSE, finite |-> TRUE]

\* How an integration ends: the steps converge, or a derivative is NaN or
\* infinite or the step limit is reached, and the integrator returns the
\* solution it has, its states no numbers.
Outcomes == {"converged", "diverged"}

diverged(solution) == [solution EXCEPT !.finite = FALSE]

\* -------------------------------------------------------------- Simulation
\* The first argument of new Simulation(system, solution): null, a System, or
\* something else that is not null (simulate passes the array of species ids,
\* which has no field species).
NoSystem == [kind |-> "null", species |-> <<>>]

ASystem(S) == [kind |-> "System", species |-> S.species]

AnArray == [kind |-> "Array", species |-> <<>>]

\* numeric.transpose(solution.y)[i]: the values of state variable i
Column(y, i) == [k \in 1..Len(y) |-> IF i <= Len(y[k]) THEN Number(y[k][i]) ELSE NoData]

\* function Simulation(system, solution)
Simulation(system, solution) ==
    [time |-> IF solution.given THEN solution.x ELSE <<0>>,
     trajectory |->
        [i \in 1..Len(system.species) |->
            [id |-> system.species[i].id,
             samples |-> IF solution.given /\ ~solution.finite THEN [k \in 1..Len(solution.y) |-> NoData]
                         ELSE IF solution.given THEN Column(solution.y, i)
                         ELSE <<Number(system.species[i].value)>>]],
     real_time_simulation |-> NULL]

\* array[array.length - 1] of a trajectory
LastSample(samples) == IF samples = <<>> THEN NoData ELSE samples[Len(samples)]

\* Array(n): n holes
Array(n) == [k \in 1..n |-> NoData]

\* Array.prototype.sort on species ids: the order of the UTF-16 code units
CodeUnitOrder == <<"X", "b">>

sort(ids) ==
    Flatten([k \in 1..Len(CodeUnitOrder) |-> SelectSeq(ids, LAMBDA s : s = CodeUnitOrder[k])])

\* union[0] = combined[0]; combined.reduce(...): each id that differs from the
\* one before it is pushed
RECURSIVE reduce(_, _, _)
reduce(combined, k, union) ==
    IF k > Len(combined) THEN union
    ELSE reduce(combined, k + 1,
                IF combined[k] # combined[k - 1] THEN Append(union, combined[k]) ELSE union)

SamplesOf(this, id) ==
    LET keys == Ids(this.trajectory) IN this.trajectory[IndexOf(keys, id)].samples

\* this.concat(other_simulation): reduce without an initial value throws on
\* an empty array.
concat(this, other_simulation) ==
    LET these_species == Ids(this.trajectory)
        those_species == Ids(other_simulation.trajectory)
        combined_species == sort(these_species \o those_species)
        union == reduce(combined_species, 2, <<combined_species[1]>>)
        tf == this.time[Len(this.time)]
        padded(u) ==
            IF u \notin Range(these_species)
            THEN Array(Len(this.time)) \o SamplesOf(other_simulation, u)
            ELSE IF u \notin Range(those_species)
            THEN SamplesOf(this, u) \o Array(Len(other_simulation.time))
            ELSE SamplesOf(this, u) \o SamplesOf(other_simulation, u)
    IN IF combined_species = <<>> THEN Returned(NoSimulation, "TypeError")
       ELSE Returned([Simulation(NoSystem, NoSolution) EXCEPT
                        !.time = this.time \o [k \in 1..Len(other_simulation.time) |->
                                                  other_simulation.time[k] + tf],
                        !.trajectory = [k \in 1..Len(union) |->
                                           [id |-> union[k], samples |-> padded(union[k])]]],
                     "ok")

\* array.shift() n times
shift(array, n) ==
    IF n <= 0 THEN array
    ELSE IF n >= Len(array) THEN <<>> ELSE SubSeq(array, n + 1, Len(array))

\* A trim that shifts the time vector and leaves the trajectories alone.
trimTimeOnly(this, buffer_size) ==
    [this EXCEPT !.time = shift(@, IndexOf(@, @[Len(@)] - buffer_size) - 1)]

\* this.trim(buffer_size): i_t0 is the position of the sample whose time is
\* the cutoff, counted from 0, or -1 when no sample has that time.
trim(this, buffer_size) ==
    LET t0 == this.time[Len(this.time)] - buffer_size
        i_t0 == IndexOf(this.time, t0) - 1
    IN [this EXCEPT
          !.time = shift(@, i_t0),
          !.trajectory = [k \in 1..Len(@) |-> [@[k] EXCEPT !.samples = shift(@, i_t0)]]]

\* simulate, the loop that writes the final values back: a species with no
\* trajectory in the Simulation throws.
RECURSIVE finalValues(_, _, _)
finalValues(sp, simulation, i) ==
    IF i > Len(sp) THEN [species |-> sp, thrown |-> FALSE]
    ELSE IF sp[i].id \notin Range(Ids(simulation.trajectory))
    THEN [species |-> sp, thrown |-> TRUE]
    ELSE finalValues([sp EXCEPT ![i].value = LastSample(SamplesOf(simulation, sp[i].id)).value],
                     simulation, i + 1)

\* simulate(t0, tf), grid being the sample times the integrator takes and
\* outcome the way the integration ends
simulate(S, grid, outcome) ==
    LET compiled == [S EXCEPT !.model = compileModel(S.heap, S.species, S.model, 1)]
        initial_values == [i \in 1..Len(S.species) |-> S.species[i].value]
        solution == IF outcome = "diverged" THEN diverged(dopri(compiled, grid, initial_values))
                    ELSE dopri(compiled, grid, initial_values)
        simulation == Simulation(AnArray, solution)
        final == finalValues(compiled.species, simulation, 1)
    IN IF solution.thrown
       THEN [state |-> compiled, result |-> "Error", simulation |-> NoSimulation]
       ELSE IF final.thrown
       THEN [state |-> [compiled EXCEPT !.species = final.species], result |-> "TypeError",
             simulation |-> NoSimulation]
       ELSE [state |-> [compiled EXCEPT !.species = final.species], result |-> "ok",
             simulation |-> simulation]

\* var t_step = config.refresh_rate / 1000 * config.t_scale
StepOf(cfg) == (cfg.refresh_rate * cfg.t_scale) \div 1000

\* An integration that starts from the oldest sample of each trajectory.
integrateFromFirst(this, S, grid) ==
    LET initial_values == [k \in 1..Len(this.trajectory) |->
                              IF this.trajectory[k].samples = <<>> THEN NoData
                              ELSE this.trajectory[k].samples[1]]
        solution == dopri(S, grid, [k \in 1..Len(initial_values) |-> initial_values[k].value])
    IN IF \E k \in 1..Len(initial_values) : ~initial_values[k].defined
       THEN [solution EXCEPT !.thrown = TRUE]
       ELSE solution

\* update_state, up to the call of the integrator
integrate(this, S, grid) ==
    LET initial_values == [k \in 1..Len(this.trajectory) |-> LastSample(this.trajectory[k].samples)]
        solution == dopri(S, grid, [k \in 1..Len(initial_values) |-> initial_values[k].value])
    IN IF \E k \in 1..Len(initial_values) : ~initial_values[k].defined
       THEN [solution EXCEPT !.thrown = TRUE]
       ELSE solution

\* An extension whose new times are the integrator's own, counted from 0.
extendFromZero(this, solution, cfg) ==
    LET extended == [this EXCEPT
                       !.trajectory = [k \in 1..Len(@) |->
                                          [@[k] EXCEPT !.samples = @ \o Column(solution.y, k)]],
                       !.time = @ \o solution.x]
        state_history_length == extended.time[Len(extended.time)] - extended.time[1]
    IN IF state_history_length > cfg.buffer_size THEN trim(extended, cfg.buffer_size)
       ELSE extended

\* update_state, from the solution on: the trajectories and the time vector
\* are extended and the history is trimmed when it exceeds the buffer.
extend(this, solution, cfg) ==
    LET t_offset == this.time[Len(this.time)]
        extended == [this EXCEPT
                       !.trajectory = [k \in 1..Len(@) |->
                                          [@[k] EXCEPT !.samples = @ \o Column(solution.y, k)]],
                       !.time = @ \o [k \in 1..Len(solution.x) |-> solution.x[k] + t_offset]]
        state_history_length == extended.time[Len(extended.time)] - extended.time[1]
    IN IF state_history_length > cfg.buffer_size THEN trim(extended, cfg.buffer_size)
       ELSE extended

\* An update_state that extends the time vector before it integrates.
update_stateTimeFirst(this, S, cfg, grid) ==
    LET solution == integrate(this, S, grid)
    IN IF solution.thrown THEN Returned([this EXCEPT !.time = @ \o grid], "Error")
       ELSE Returned(extend(this, solution, cfg), "ok")

\* this.update_state(system, config, div)
update_state(this, S, cfg, grid) ==
    LET solution == integrate(this, S, grid)
    IN IF solution.thrown THEN Returned(this, "Error")
       ELSE Returned(extend(this, solution, cfg), "ok")

\* ---------------------------------------------------------------- timers
\* setInterval(callback, refresh_rate)
setInterval(T) == [T EXCEPT !.count = @ + 1, !.active = @ \cup {T.count + 1}]

\* clearInterval(id)
clearInterval(T, id) == [T EXCEPT !.active = @ \ {id}, !.pending = @ \ {id}]

\* simulate_in_real_time(div)
simulate_in_real_time(S, T) ==
    [state_history |-> [Simulation(ASystem(S), NoSolution) EXCEPT
                           !.real_time_simulation = T.count + 1],
     timers |-> setInterval(T)]

\* trajectory[type][len - 1] = trajectory[type][len - 1] + size
addToSample(samples, len, size) ==
    [k \in 1..(IF len > Len(samples) THEN len ELSE Len(samples)) |->
        IF k > Len(samples) THEN NoData
        ELSE IF k = len /\ samples[k].defined THEN Number(samples[k].value + size)
        ELSE IF k = len THEN NoData
        ELSE samples[k]]

\* --------------------------------------------- the System and its species
\* The instances added while species come and go.
CallsSpecies == {<<"decay", <<"X">>, <<"p">>>>, <<"decay", <<"b">>, <<"q">>>>}

\* The times simulate is called with.
SimTimes == {0, 1}

SimulateOutcome(t0, tf, outcome) ==
    \E grid \in Grids(t0, tf) :
        LET r == simulate(Cur, grid, outcome)
        IN /\ outcome = "diverged" => (species # <<>> /\ t0 < tf /\ r.result # "Error")
           /\ Returns(r, "simulate", "", <<>>, <<>>)
           /\ sim' = IF r.result = "ok" THEN r.simulation ELSE sim
           /\ UNCHANGED <<config, state_history, timers, running>>

Simulate(t0, tf) == \E outcome \in Outcomes : SimulateOutcome(t0, tf, outcome)

\* A System set up by a script, on which species and instances are added and
\* removed, and which is compiled and simulated.
InitSystem ==
    \E s_ids \in {<<"X">>, <<"X", "b">>} :
        Is(Run(System, Setup(s_ids, <<"p", "q">>, TxtDecay))) /\ last = AfterScript

NextSystem ==
    \/ AddSpecies
    \/ RemoveSpecies
    \/ AddInteraction(CallsSpecies, MaxInstancesSpecies)
    \/ RemoveInteractionsByName
    \/ Compile
    \/ \E t0 \in SimTimes, tf \in SimTimes : Simulate(t0, tf)

SpecSystem == InitSystem /\ [][NextSystem]_vars

\* ------------------------------------------------------ the real-time loop
\* The system is left alone while the loop runs.
\* A callback that writes the newest samples of the history back to the
\* species.
SystemWrittenBack ==
    /\ species' = [i \in 1..Len(species) |->
                      LET k == IndexOf(Ids(state_history'.trajectory), species[i].id)
                      IN IF k = 0 \/ ~LastSample(state_history'.trajectory[k].samples).defined
                         THEN species[i]
                         ELSE [species[i] EXCEPT
                                 !.value = LastSample(state_history'.trajectory[k].samples).value]]
    /\ UNCHANGED <<parameters, interactions, _interactions, model, heap, config>>

SystemUnchanged == UNCHANGED <<species, parameters, interactions, _interactions, model, heap, config>>

Did(op, id, result) ==
    last' = [op |-> op, result |-> result, id |-> id, v_args |-> <<>>, p_args |-> <<>>]

\* An event loop that starts a callback while another is running.
Reentrant == TRUE

\* Callbacks run one at a time: the event loop starts a timer callback or an
\* event handler only when no other is running.
Idle == running = <<>>

\* The interval of a timer elapses once more: its callback is due.
Elapse ==
    \E id \in timers.active \ timers.pending :
        /\ state_history.time[Len(state_history.time)] < MaxTime
        /\ timers' = [timers EXCEPT !.pending = @ \cup {id}]
        /\ UNCHANGED <<last, sim, state_history, running>>
        /\ SystemUnchanged

\* The callback of an interval starts: update_state up to the integrator.
TickBegin ==
    \E id \in timers.pending, grid \in Grids(0, StepOf(config)) :
        /\ Idle
        /\ running' = Append(running, [interval |-> id,
                                       solution |-> integrate(state_history, Cur, grid)])
        /\ timers' = [timers EXCEPT !.pending = @ \ {id}]
        /\ UNCHANGED <<last, sim, state_history>>
        /\ SystemUnchanged

\* The callback returns: update_state from the solution on.
TickEnd ==
    \E k \in 1..Len(running) :
        LET solution == running[k].solution
        IN /\ state_history' = IF solution.thrown THEN state_history
                               ELSE extend(state_history, solution, config)
           /\ running' = [j \in 1..(Len(running) - 1) |-> running[IF j < k THEN j ELSE j + 1]]
           /\ Did("update_state", "", IF solution.thrown THEN "Error" ELSE "ok")
           /\ UNCHANGED <<sim, timers>>
           /\ SystemUnchanged

\* The click handlers of the doses: the interval is cleared, the dose is
\* added to the newest sample, a new interval is set.
Dose ==
    \E type \in SpeciesIds, size \in {1} :
        LET cleared == clearInterval(timers, state_history.real_time_simulation)
            len == Len(state_history.time)
            k == IndexOf(Ids(state_history.trajectory), type)
        IN /\ Idle
           /\ timers.count < MaxIntervals
           /\ IF k = 0
              THEN /\ timers' = cleared
                   /\ UNCHANGED state_history
                   /\ Did("dose", type, "TypeError")
              ELSE /\ timers' = setInterval(cleared)
                   /\ state_history' =
                         [state_history EXCEPT
                            !.trajectory[k].samples = addToSample(@, len, size),
                            !.real_time_simulation = cleared.count + 1]
                   /\ Did("dose", type, "ok")
           /\ UNCHANGED <<sim, running>>
           /\ SystemUnchanged

\* $("#pause").click
Pause ==
    /\ Idle
    /\ timers' = clearInterval(timers, state_history.real_time_simulation)
    /\ Did("pause", "", "ok")
    /\ UNCHANGED <<sim, state_history, running>>
    /\ SystemUnchanged

\* $("#play").click: a new interval is set, the old one is not cleared
Play ==
    /\ Idle
    /\ timers.count < MaxIntervals
    /\ timers' = setInterval(timers)
    /\ state_history' = [state_history EXCEPT !.real_time_simulation = timers.count + 1]
    /\ Did("play", "", "ok")
    /\ UNCHANGED <<sim, running>>
    /\ SystemUnchanged

\* The change handler of a slider: S.parameters[id].set(new_value).  A
\* Parameter has the properties value and name and no method, so the call
\* throws and the value stays.
Slider(id, new_value) ==
    /\ Idle
    /\ id \in Range(Ids(parameters))
    /\ Did("slider", id, "TypeError")
    /\ UNCHANGED <<sim, state_history, timers, running>>
    /\ SystemUnchanged

\* new Simulation(null, null) or new Simulation(system, null)
NewSimulation ==
    \E system \in {NoSystem, ASystem(Cur)} :
        /\ Idle
        /\ sim' = Simulation(system, NoSolution)
        /\ Did("new Simulation", "", "ok")
        /\ UNCHANGED <<state_history, timers, running>>
        /\ SystemUnchanged

\* a.concat(b) on the Simulations at hand
Concat ==
    \E this \in {sim, state_history}, other_simulation \in {sim, state_history} :
        LET r == concat(this, other_simulation)
        IN /\ Idle
           /\ sim # NoSimulation
           /\ Len(this.time) + Len(other_simulation.time) <= MaxSamples
           /\ sim' = IF r.result = "ok" THEN r.state ELSE sim
           /\ Did("concat", "", r.result)
           /\ UNCHANGED <<state_history, timers, running>>
           /\ SystemUnchanged

\* sim.trim(buffer_size)
Trim ==
    \E buffer_size \in {1, 2} :
        /\ Idle
        /\ sim # NoSimulation
        /\ sim' = trim(sim, buffer_size)
        /\ Did("trim", "", "ok")
        /\ UNCHANGED <<state_history, timers, running>>
        /\ SystemUnchanged

\* The callback of an interval from start to return: update_state
Tick ==
    \E id \in timers.active, grid \in Grids(0, StepOf(config)) :
        LET r == update_state(state_history, Cur, config, grid)
        IN /\ Idle
           /\ state_history.time[Len(state_history.time)] < MaxTime
           /\ state_history' = r.state
           /\ Did("update_state", "", r.result)
           /\ UNCHANGED <<sim, timers, running>>
           /\ SystemUnchanged

\* A page like the demonstration: a System set up by a script, compiled or
\* not, and simulate_in_real_time called on it.
Pages ==
    {[s_ids |-> <<"X">>, run |-> <<>>, config |-> Config(1, 2)],
     [s_ids |-> <<"X">>, run |-> FirstRun, config |-> Config(2, 3)],
     [s_ids |-> <<"X", "b">>, run |-> FirstRun, config |-> Config(1, 2)],
     [s_ids |-> <<"X", "b">>, run |-> FirstRun, config |-> Config(2, 3)]}

InitRealTime ==
    \E page \in Pages :
        \E S \in {Run(System, Setup(page.s_ids, <<"p", "q">>, TxtDecay) \o page.run)} :
            \E rt \in {simulate_in_real_time(S, NoTimers)} :
                /\ IsSystem(S)
                /\ config = page.config
                /\ state_history = rt.state_history
                /\ timers = rt.timers
                /\ sim = NoSimulation
                /\ running = <<>>
                /\ last = AfterScript

\* The loop and the handlers of the page, a tick being the two steps of its
\* callback.
NextRealTime ==
    \/ Elapse
    \/ TickBegin
    \/ TickEnd
    \/ Dose
    \/ Pause
    \/ Play

SpecRealTime == InitRealTime /\ [][NextRealTime]_vars

\* The state buffer: ticks, doses, and the Simulations made from it with
\* concat and trim.
NextBuffer ==
    \/ Tick
    \/ Dose
    \/ \E id \in ParameterIds : Slider(id, 1)
    \/ NewSimulation
    \/ Concat
    \/ Trim

SpecBuffer == InitRealTime /\ [][NextBuffer]_vars

\* The call that made the last step.  Templates are not changed by
\* addInteraction, so the template of the call can be read after it.
LastBase == interactions[last.id]

LastIds == variables(LastBase) \o parameters_(heap, LastBase)

LastArgs == last.v_args \o last.p_args

LastAccepted == last.op = "addInteraction" /\ last.result = "ok"

LastInstance == InstancesView[Len(_interactions)]

\* The global ids a local symbol was bound to by the arguments of a call.
Bound(ids, args, x) == {args[i] : i \in {j \in 1..Len(ids) : j <= Len(args) /\ ids[j] = x}}

\* The entry of a symbol in the table the arguments are paired into: where
\* a symbol is listed more than once, its last pairing.
Binding(ids, args, x) ==
    args[CHOOSE j \in 1..Len(ids) : ids[j] = x /\ \A k \in (j + 1)..Len(ids) : ids[k] # x]

\* s is t with every symbol of the table replaced by its binding, and
\* everything else as in t.
RECURSIVE IsSubst(_, _, _, _)
IsSubst(t, s, ids, args) ==
    /\ s.type = t.type
    /\ Len(s.args) = Len(t.args)
    /\ IF t.type = "SymbolNode" /\ t.name \in Range(ids)
       THEN s.name = Binding(ids, args, t.name)
       ELSE s.name = t.name
    /\ \A i \in 1..Len(t.args) : IsSubst(t.args[i], s.args[i], ids, args)

\* The call of a step, read in the state it is made in.
CallDefined == last'.op = "addInteraction" /\ interactions[last'.id].defined

\* The instance list, the species and the parameters are as before the step.
NothingMutated ==
    /\ InstancesView' = InstancesView
    /\ SpeciesView' = SpeciesView
    /\ parameters' = parameters

RuleNodes(rules) == UNION {NodesOf(heap, rules[i].expression) : i \in 1..Len(rules)}

TemplateNodes == UNION {RuleNodes(interactions[n].rules) : n \in Range(TemplateNames)}

InstanceNodes == UNION {RuleNodes(_interactions[k].rules) : k \in 1..Len(_interactions)}

\* ------------------------------------------------------------------ claims
\* C1: an addInteraction whose species_args or parameter_args length differs
\* from the template's variables() or parameters() length mutates nothing:
\* the instance list, the species and the parameters are as before the call.
C1_ArityMismatchMutatesNothing ==
    [][(/\ CallDefined
        /\ \/ Len(last'.v_args) # Len(variables(interactions[last'.id]))
           \/ Len(last'.p_args) # Len(parameters_(heap, interactions[last'.id])))
       => NothingMutated]_vars

\* C2: an addInteraction with an argument that names no registered Species
\* or no registered Parameter appends no instance and changes no registry.
C2_UnknownIdMutatesNothing ==
    [][(/\ CallDefined
        /\ \/ \E i \in 1..Len(last'.v_args) : last'.v_args[i] \notin Range(Ids(species))
           \/ \E i \in 1..Len(last'.p_args) : last'.p_args[i] \notin Range(Ids(parameters)))
       => NothingMutated]_vars

\* C3: no addInteraction, accepted or rejected, changes a rule expression of
\* a template, and after it no instance expression shares a Node with a
\* template expression.
C3_TemplatesUnchanged ==
    [][last'.op = "addInteraction"
       => (TemplatesView' = TemplatesView /\ (TemplateNodes \cap InstanceNodes)' = {})]_vars

\* Two accepted-looking instances of one template, each renamed, with the
\* second made by the last call.
C3_SecondInstantiation ==
    /\ LastAccepted
    /\ Len(_interactions) = 2
    /\ \A k \in 1..2 :
          /\ _interactions[k].name = last.id
          /\ InstancesView[k].rules[1].expression # TemplatesView[last.id].rules[1].expression

\* C4: after an accepted addInteraction each expression of the new instance
\* is the template rule's expression with every symbol of the symbol table
\* replaced once by the id it is bound to and every other node as it was,
\* and it has the value of the template expression under the bindings.
C4_SimultaneousSubstitution ==
    LastAccepted =>
        \A i \in 1..Len(LastInstance.rules) :
            LET t == TemplatesView[last.id].rules[i].expression
                e == LastInstance.rules[i].expression
                local(scope) == [x \in Range(LastIds) |-> scope[Binding(LastIds, LastArgs, x)]]
            IN /\ IsSubst(t, e, LastIds, LastArgs)
               /\ \A scope \in Scopes : eval(e, scope) = eval(t, local(scope))

\* The call binds a to b and b to X: a global id that is a local symbol.
C4_GlobalIdIsLocalSymbol ==
    /\ LastAccepted
    /\ last.id = "pair"
    /\ last.v_args = <<"b", "X", "X">>
    /\ LastInstance.rules[1].expression
           = parse(<<"q", "*", "b", "*", "(", "p", "-", "X", ")">>)

\* C6: after an accepted addInteraction every variable and every parameter
\* of the template has exactly one binding, and the substituted expression
\* of the rule of local variable v is stored under the species id v was
\* bound to by position.
C6_BindingTotalAndKeyed ==
    LastAccepted =>
        /\ \A x \in Range(LastIds) : Cardinality(Bound(LastIds, LastArgs, x)) = 1
        /\ \A i \in 1..Len(LastBase.rules) :
              LastBase.rules[i].expression # NULL =>
                  \E j \in 1..Len(LastInstance.rules) :
                      /\ LastInstance.rules[j].key = last.v_args[i]
                      /\ IsSubst(TemplatesView[last.id].rules[i].expression,
                                 LastInstance.rules[j].expression, LastIds, LastArgs)

\* C7: an accepted addInteraction appends one instance at the end of the
\* instance list and changes nothing else: the instances before it, every
\* species and its rate law, the model, the parameters and the templates.
C7_AppendsOneInstanceOnly ==
    [][(last'.op = "addInteraction" /\ last'.result = "ok")
       => (/\ Len(InstancesView') = Len(InstancesView) + 1
           /\ SubSeq(InstancesView', 1, Len(InstancesView)) = InstancesView
           /\ SpeciesView' = SpeciesView
           /\ model' = model
           /\ parameters' = parameters
           /\ TemplatesView' = TemplatesView)]_vars

\* An instance accepted on a compiled System that already has an instance.
C7_AcceptedAfterCompile ==
    /\ LastAccepted
    /\ Len(_interactions) = 2
    /\ species[1].rate_law # NULL
    /\ model[1] \notin {NullEntry, Hole}

\* The names of the symbol nodes of a tree, from left to right.
RECURSIVE SymbolNames(_)
SymbolNames(t) ==
    IF t.type = "SymbolNode" THEN <<t.name>>
    ELSE IF Len(t.args) = 0 THEN <<>>
    ELSE IF Len(t.args) = 1 THEN SymbolNames(t.args[1])
    ELSE SymbolNames(t.args[1]) \o SymbolNames(t.args[2])

\* A sequence without the later occurrences of its elements.
RECURSIVE FirstSeen(_, _)
FirstSeen(names, seen) ==
    IF names = <<>> THEN seen
    ELSE FirstSeen(Tail(names), IF Head(names) \in Range(seen) THEN seen ELSE Append(seen, Head(names)))

\* C5: parameters() of a template is the symbol names of its rules that are
\* not variables, each name once, in the order they are first seen scanning
\* the rules in declaration order.
C5_ParametersFirstSeenOnce ==
    \A n \in Range(TemplateNames) :
        interactions[n].defined =>
            LET rules == TemplatesView[n].rules
                names == Flatten([i \in 1..Len(rules) |-> SymbolNames(rules[i].expression)])
                isParameter(x) == x \notin Range(variables(interactions[n]))
            IN parameters_(heap, interactions[n]) = FirstSeen(SelectSeq(names, isParameter), <<>>)

\* The rate laws of a System, as tree values.
RateLaws(S) == [i \in 1..Len(S.species) |-> ExpressionOf(S.heap, S.species[i].rate_law)]

\* A System as it is before any compile: no rate law, a model of nulls.
Uncompiled(S) ==
    SystemOf([i \in 1..Len(S.species) |-> [S.species[i] EXCEPT !.rate_law = NULL]],
             S.parameters, S.interactions, S.instances,
             [i \in 1..Len(S.model) |-> NullEntry], S.heap)

\* C8: compile is a full rebuild.  Right after a compile, compiling again
\* leaves the same rate laws and model, and the rate laws and the model are
\* those that compiling the same species, parameters and instances gives
\* when there was no earlier compile.
C8_CompileIsFullRebuild ==
    last.op = "compile" =>
        LET again == compile(Cur).state
            fresh == compile(Uncompiled(Cur)).state
        IN /\ RateLaws(again) = RateLaws(Cur)
           /\ again.model = model
           /\ RateLaws(fresh) = RateLaws(Cur)
           /\ fresh.model = model

\* The terms the instances contribute to a species, in registration order.
Terms(identifier) ==
    LET contributes(r) == r.key = identifier /\ r.expression # NullEntry
        of(k) == SelectSeq(InstancesView[k].rules, contributes)
    IN Flatten([k \in 1..Len(_interactions) |-> [j \in 1..Len(of(k)) |-> of(k)[j].expression]])

\* ((t1 + t2) + t3) ...
RECURSIVE LeftSum(_)
LeftSum(terms) ==
    IF terms = <<>> THEN NullEntry
    ELSE IF Len(terms) = 1 THEN terms[1]
    ELSE OperatorNode("+", <<LeftSum(SubSeq(terms, 1, Len(terms) - 1)), terms[Len(terms)]>>)

\* C9: after a compile the rate law of each species is the left-associated
\* sum of the terms the instances contribute to it, in registration order,
\* and unset when there is none.
C9_LeftAssociatedSum ==
    last.op = "compile" =>
        \A i \in 1..Len(species) : RateLaws(Cur)[i] = LeftSum(Terms(species[i].id))

Plus(x, y) ==
    IF x.ok /\ y.ok THEN [ok |-> TRUE, value |-> x.value + y.value]
    ELSE [ok |-> FALSE, value |-> 0]

Reverse(seq) == [i \in 1..Len(seq) |-> seq[Len(seq) + 1 - i]]

\* C10: after a compile the model entry of a species two instances
\* contribute to has, in every scope, the value of the sum of the two terms,
\* and the value of the entry compiled with the instances registered in the
\* other order.
C10_ValueCommutative ==
    last.op = "compile" =>
        \A i \in 1..Len(species) :
            LET terms == Terms(species[i].id)
                other == compile([Cur EXCEPT !.instances = Reverse(@)]).state
            IN Len(terms) = 2 =>
                   \A scope \in Scopes :
                       /\ eval(model[i], scope) = Plus(eval(terms[1], scope), eval(terms[2], scope))
                       /\ eval(other.model[i], scope) = eval(model[i], scope)

\* C11: after a compile, the model entry of every species to which no
\* instance contributes a term has the value 0 in every scope.
C11_ZeroWithoutTerms ==
    last.op = "compile" =>
        \A i \in 1..Len(species) :
            Terms(species[i].id) = <<>> =>
                /\ i <= Len(model)
                /\ \A scope \in Scopes : eval(model[i], scope) = [ok |-> TRUE, value |-> 0]

\* The model entry that compiling the rate law of species i gives.
CompiledRateLaw(i) ==
    IF species[i].rate_law = NULL THEN parse(<<"0">>) ELSE TreeOf(heap, species[i].rate_law)

\* C12: after a compile, whatever species and instances were added and
\* removed before it, the model has exactly one entry per registered
\* species and entry i is the compiled rate law of the i-th species.
C12_OneEntryPerSpecies ==
    last.op = "compile" =>
        /\ Len(model) = Len(species)
        /\ \A i \in 1..Len(species) : model[i] = CompiledRateLaw(i)

\* The System a step leaves.
Left ==
    [species |-> species', parameters |-> parameters', interactions |-> interactions',
     instances |-> _interactions', model |-> model', heap |-> heap']

\* C13: removeSpecies of a registered species removes that species and the
\* instances with a rule keyed by it, keeps the other species and instances
\* in their order, and the next compile leaves a model one entry shorter
\* than the model before the removal.
C13_RemoveSpeciesShortensModel ==
    [][(last'.op = "removeSpecies" /\ last'.id \in Range(Ids(species))) =>
          /\ Ids(species') = SelectSeq(Ids(species), LAMBDA s : s # last'.id)
          /\ InstancesView' = SelectSeq(InstancesView,
                                         LAMBDA i : last'.id \notin Range(Keys(i.rules)))
          /\ Len(compile(Left).state.model) = Len(model) - 1]_vars

\* A step that calls simulate on a System with at least one species, right
\* after a compile that returned.
SimulateCompiled ==
    /\ last.op = "compile" /\ last.result = "ok"
    /\ Len(species) >= 1
    /\ last'.op = "simulate"

\* C14: simulate on a compiled System with at least one species returns a
\* Simulation with one trajectory per species, keyed by the species id, and
\* leaves every species' value equal to the last sample of its trajectory.
C14_SimulateReturnsTrajectories ==
    [][SimulateCompiled =>
          /\ last'.result = "ok"
          /\ Ids(sim'.trajectory) = Ids(species')
          /\ \A i \in 1..Len(species') :
                LastSample(sim'.trajectory[i].samples) = Number(species'[i].value)]_vars

\* C15: compile followed by simulate(0, 0) returns exactly one sample per
\* species, equal to the species' initial value, and leaves the values
\* unchanged.
C15_ZeroLengthSimulation ==
    [][(SimulateCompiled /\ Simulate(0, 0)) =>
          /\ last'.result = "ok"
          /\ Ids(sim'.trajectory) = Ids(species)
          /\ \A i \in 1..Len(species) :
                /\ sim'.trajectory[i].samples = <<Number(species[i].value)>>
                /\ species'[i].value = species[i].value]_vars

\* Every trajectory of a Simulation is as long as its time vector.
InStep(this) ==
    \A k \in 1..Len(this.trajectory) : Len(this.trajectory[k].samples) = Len(this.time)

\* C16: in every state the buffer reaches by creation, ticks, trims, concats
\* and doses, every trajectory has as many samples as the time vector.
C16_TrajectoriesInStep == InStep(state_history) /\ InStep(sim)

\* A buffer that was ticked and trimmed, beside a concatenation that was
\* padded on one side.
C16_TrimmedAndPadded ==
    /\ state_history.time[1] > 0
    /\ state_history.trajectory # <<>>
    /\ Len(sim.time) > 1
    /\ \E k \in 1..Len(sim.trajectory) : NoData \in Range(sim.trajectory[k].samples)

\* C17: after any number of ticks the time vector of the buffer is strictly
\* increasing, also from the last sample of one tick to the first sample of
\* the next.
C17_TimeStrictlyIncreasing ==
    \A i \in 1..(Len(state_history.time) - 1) :
        state_history.time[i] < state_history.time[i + 1]

\* C18: after every tick, whatever the step and the buffer size, no sample
\* that is kept is older than the newest time minus the buffer size.
C18_NothingOlderThanBuffer ==
    (last.op = "update_state" /\ last.result = "ok") =>
        \A i \in 1..Len(state_history.time) :
            state_history.time[i] >=
                state_history.time[Len(state_history.time)] - config.buffer_size

\* The Simulations of the page.
Simulations == {sim, state_history} \ {NoSimulation}

\* C19: concat of two Simulations returns one whose time is the time of the
\* first followed by the time of the second shifted by the final time of the
\* first, whose keys are the union of the keys, and whose trajectories all
\* have the length of the two time vectors together, the side that lacks a
\* key being padded with the no-data marker.
C19_ConcatPadsMissingSide ==
    \A this \in Simulations, other_simulation \in Simulations :
        LET r == concat(this, other_simulation)
            keys == Range(Ids(this.trajectory)) \cup Range(Ids(other_simulation.trajectory))
            tf == this.time[Len(this.time)]
            side(one, u) ==
                IF u \in Range(Ids(one.trajectory)) THEN SamplesOf(one, u)
                ELSE [k \in 1..Len(one.time) |-> NoData]
        IN /\ r.result = "ok"
           /\ r.state.time = this.time \o [k \in 1..Len(other_simulation.time) |->
                                              other_simulation.time[k] + tf]
           /\ Range(Ids(r.state.trajectory)) = keys
           /\ Len(r.state.trajectory) = Cardinality(keys)
           /\ \A u \in keys :
                 /\ SamplesOf(r.state, u) = side(this, u) \o side(other_simulation, u)
                 /\ Len(SamplesOf(r.state, u)) = Len(this.time) + Len(other_simulation.time)

C21_PauseIsFinal ==
    [][last.op = "pause" =>
          /\ running' = <<>>
          /\ Pause => UNCHANGED <<timers, state_history>>]_vars

\* C22: a tick that fails leaves the buffer as it was before the tick: the
\* time and every trajectory keep what they held, nothing is appended.
C22_FailedTickKeepsBuffer ==
    [][(last'.op = "update_state" /\ last'.result = "Error") =>
          state_history' = state_history]_vars

\* A tick has failed on a buffer whose newest sample had received a dose.
C22_FailedAfterDose ==
    /\ last.op = "update_state" /\ last.result = "Error"
    /\ \E k \in 1..Len(state_history.trajectory) :
          state_history.trajectory[k].samples = <<Number(2)>>

\* The values of the registered species, in registry order
SpeciesValues(S) == [i \in 1..Len(S.species) |-> S.species[i].value]

\* C23: a simulate(t0, tf) whose integration does not converge, or meets a
\* derivative that is NaN or infinite, aborts with a SimulationError, returns
\* no trajectory and changes no species value.
C23_DivergedSimulateAborts ==
    [][(\E t0, tf \in SimTimes : SimulateOutcome(t0, tf, "diverged")) =>
          /\ last'.result = "SimulationError"
          /\ sim' = sim
          /\ SpeciesValues(Left) = SpeciesValues(Cur)]_vars

\* The names a species' rate law refers to that are neither a species id nor
\* a parameter id.
UnboundSymbols(S) ==
    {S.heap[r].name : r \in UNION {Range(filterSymbolNodes(S.heap, S.species[i].rate_law)) :
                                      i \in {j \in 1..Len(S.species) : S.species[j].rate_law # NULL}}}
        \ (Range(Ids(S.species)) \cup Range(Ids(S.parameters)))

\* C24: a simulate call on a System in which a rate law refers to a name that
\* the scope lacks aborts in the evaluator: no trajectory is returned, no
\* species value changes, and the name is not evaluated as zero.
C24_UnboundSymbolAborts ==
    [][((\E t0, tf \in SimTimes : Simulate(t0, tf)) /\ UnboundSymbols(Cur) # {}) =>
          /\ last'.result = "Error"
          /\ sim' = sim
          /\ SpeciesValues(Left) = SpeciesValues(Cur)]_vars

\* compile accepted the rate law, and the simulate after it failed on the name
C24_UnboundAfterCompile ==
    /\ last.op = "simulate" /\ last.result = "Error"
    /\ UnboundSymbols(Cur) # {}
    /\ \A i \in 1..Len(species) : model[i] = CompiledRateLaw(i)

\* The newest sample of every trajectory of a Simulation.
Newest(this) == [k \in 1..Len(this.trajectory) |-> LastSample(this.trajectory[k].samples)]

\* C25: a dose adds its size to the newest sample of the targeted species
\* and changes nothing else of the history: the time vector, every other
\* sample and every length stay; and the tick after it ends in the state
\* that the integration from the newest samples, the dosed one among them,
\* ends in.
C25_DoseOnNewestSample ==
    [][/\ (Dose /\ last'.result = "ok") =>
             LET target == IndexOf(Ids(state_history.trajectory), last'.id)
             IN /\ state_history'.time = state_history.time
                /\ Ids(state_history'.trajectory) = Ids(state_history.trajectory)
                /\ \A k \in 1..Len(state_history.trajectory) :
                      LET old == state_history.trajectory[k].samples
                          new == state_history'.trajectory[k].samples
                      IN /\ Len(new) = Len(old)
                         /\ \A j \in 1..Len(old) :
                               new[j] = IF k = target /\ j = Len(old)
                                        THEN Number(old[j].value + 1)
                                        ELSE old[j]
       /\ (Tick /\ last'.result = "ok") =>
             \E grid \in Grids(0, StepOf(config)) :
                LET y0 == [k \in 1..Len(state_history.trajectory) |-> Newest(state_history)[k].value]
                    solution == dopri(Cur, grid, y0)
                IN Newest(state_history') =
                      [k \in 1..Len(y0) |-> Number(solution.y[Len(solution.y)][k])]]_vars

\* a tick has extended a history whose newest sample was dosed
C25_TickAfterDose ==
    /\ last.op = "update_state" /\ last.result = "ok"
    /\ \E k \in 1..Len(state_history.trajectory) :
          \E j \in 1..(Len(state_history.trajectory[k].samples) - 2) :
             /\ state_history.trajectory[k].samples[j] = Number(2)
             /\ state_history.trajectory[k].samples[j + 1] = Number(2)
             /\ state_history.trajectory[k].samples[j + 2] # Number(2)

\* Object.create(System): a new object without a property of its own, whose
\* prototype is System.  No method assigns this.species, this.parameters,
\* this.interactions, this._interactions or this.model, they are read and
\* changed in place, so what is reached through the new object is what the
\* prototype holds.
ObjectCreate(prototype) == prototype

\* C26: of two System values created separately, adding or removing a
\* species or an instance on the one leaves the species, the parameters, the
\* instances and the Model of the other as they were.
C26_SystemsIndependent ==
    [][(AddSpecies \/ RemoveSpecies \/ AddInteraction(CallsSpecies, MaxInstancesSpecies)
            \/ RemoveInteractionsByName) =>
          LET other == ObjectCreate(Cur)
              after == ObjectCreate(Left)
          IN /\ after.species = other.species
             /\ after.parameters = other.parameters
             /\ after.instances = other.instances
             /\ after.model = other.model]_vars

\* The scope that maps the i-th species id to y[i] and every parameter id to
\* the parameter's value.
ScopeOf(S, y) ==
    [name \in Range(Ids(S.species)) \cup Range(Ids(S.parameters)) |->
        IF name \in Range(Ids(S.species)) THEN y[IndexOf(Ids(S.species), name)]
        ELSE S.parameters[IndexOf(Ids(S.parameters), name)].value]

\* Model entry i evaluated in a scope; no value when the entry is missing
EntryIn(S, i, scope) ==
    IF i > Len(S.model) THEN [ok |-> FALSE, value |-> 0] ELSE eval(S.model[i], scope)

\* C27: for every state vector y with one value per species, dY returns a
\* vector as long as y whose i-th entry is the value of Model entry i in the
\* scope that maps the i-th species id to y[i] and every parameter id to its
\* value; it returns nothing exactly when an entry has no value there.
C27_DerivativeVector ==
    \A y \in [1..Len(species) -> ScopeValues] :
        LET d == dY(Cur, y)
            scope == ScopeOf(Cur, y)
        IN /\ d.thrown = (\E i \in 1..Len(y) : ~EntryIn(Cur, i, scope).ok)
           /\ ~d.thrown =>
                 /\ Len(d.dy) = Len(y)
                 /\ \A i \in 1..Len(y) : d.dy[i] = EntryIn(Cur, i, scope).value

\* an integration has called dY on two species, one of them with a rate law
C27_DerivativeOfTwo ==
    /\ last.op = "simulate" /\ last.result = "TypeError"
    /\ Len(species) = 2
    /\ \E i \in 1..Len(species) : species[i].rate_law # NULL
    /\ ~dY(Cur, [i \in 1..Len(species) |-> species[i].value]).thrown

\* C28: after an addInteraction that was rejected, compile() returns if a
\* compile() right before the call returned, and it gives every species the
\* rate law which that compile gave it.
C28_RejectedCallLeavesNoTerm ==
    [][(AddInteraction(CallsSpecies, MaxInstancesSpecies) /\ last'.result # "ok") =>
          LET before == compile(Cur)
              after == compile(Left)
          IN before.result = "ok" =>
                /\ after.result = "ok"
                /\ RateLaws(after.state) = RateLaws(before.state)]_vars

\* The Node objects of the rate law of species i.
RateLawNodes(i) == NodesOf(heap, species[i].rate_law)

\* C29: after a compile() that returned, the rate law of a species has no
\* Node in common with the expression of a live instance, nor with the rate
\* law of another species.
C29_RateLawsShareNoNode ==
    (last.op = "compile" /\ last.result = "ok") =>
        \A i \in 1..Len(species) :
            /\ RateLawNodes(i) \cap InstanceNodes = {}
            /\ \A j \in 1..Len(species) : j # i => RateLawNodes(i) \cap RateLawNodes(j) = {}

\* The newest time of a Simulation.
Latest(this) == this.time[Len(this.time)]

\* C30: a tick that succeeds integrates from 0 to
\* t_step = refresh_rate / 1000 * t_scale, starting from the newest sample of
\* every trajectory of the history: the times it appends are those of the
\* integration counted from the newest time, the samples it appends are the
\* states of the integration, and the newest time grows by exactly t_step.
C30_TickAdvancesByStep ==
    [][(Tick /\ last'.result = "ok") =>
          LET t_step == (config.refresh_rate * config.t_scale) \div 1000
              y0 == [k \in 1..Len(state_history.trajectory) |-> Newest(state_history)[k].value]
              n == Len(state_history'.time)
          IN /\ Latest(state_history') = Latest(state_history) + t_step
             /\ \E grid \in Grids(0, t_step) :
                   LET solution == dopri(Cur, grid, y0)
                       m == Len(grid)
                   IN /\ m <= n
                      /\ \A j \in 1..m :
                            /\ state_history'.time[n - m + j] = Latest(state_history) + grid[j]
                            /\ \A k \in 1..Len(y0) :
                                  state_history'.trajectory[k].samples[n - m + j]
                                      = Number(solution.y[j][k])]_vars

\* the second tick of a page has succeeded
C30_SecondTick ==
    /\ last.op = "update_state" /\ last.result = "ok"
    /\ Latest(state_history) = 2 * StepOf(config)
    /\ state_history.trajectory # <<>>

\* C31: removeInteractionsByName(name) removes the live instances of the
\* template called name and no others: the instances of the other templates
\* remain, in the order they had, and the species, the parameters, the
\* templates and the Model are as before.
C31_RemovesInstancesOfName ==
    [][RemoveInteractionsByName =>
          LET kept == {i \in 1..Len(_interactions) : _interactions[i].name # last'.id}
          IN /\ \E f \in [1..Len(_interactions') -> 1..Len(_interactions)] :
                   /\ {f[j] : j \in 1..Len(_interactions')} = kept
                   /\ \A j, k \in 1..Len(_interactions') : j < k => f[j] < f[k]
                   /\ \A j \in 1..Len(_interactions') : InstancesView'[j] = InstancesView[f[j]]
             /\ SpeciesView' = SpeciesView
             /\ parameters' = parameters
             /\ TemplatesView' = TemplatesView
             /\ model' = model]_vars

\* the instances of 'decay' were removed from among those of 'pair'
C31_OthersRemain ==
    /\ last.op = "removeInteractionsByName" /\ last.id = "decay"
    /\ Len(_interactions) = 2
    /\ \A i \in 1..Len(_interactions) : _interactions[i].name = "pair"

C33_OneLiveTimer ==
    /\ Cardinality(timers.active) <= 1
    /\ timers.active \subseteq {state_history.real_time_simulation}

\* C34: a dose that is applied leaves the loop as it was: running when it
\* ran, that is with an active interval, and paused when it was paused, with
\* none.
C34_DoseKeepsLoopState ==
    [][(Dose /\ last'.result = "ok") => ((timers'.active = {}) = (timers.active = {}))]_vars

\* C35: a tick changes the history and nothing of the System: the species
\* with their values and rate laws, the parameters, the live instances and
\* the Model are after the tick what they were before it.
C35_TickLeavesSystem ==
    [][Tick =>
          /\ SpeciesView' = SpeciesView
          /\ parameters' = parameters
          /\ InstancesView' = InstancesView
          /\ model' = model]_vars

\* a tick has moved the newest sample of a species away from its value
C35_SampleLeftValue ==
    /\ last.op = "update_state" /\ last.result = "ok"
    /\ \E i \in 1..Len(species) :
          \E k \in 1..Len(state_history.trajectory) :
             /\ state_history.trajectory[k].id = species[i].id
             /\ LastSample(state_history.trajectory[k].samples).defined
             /\ LastSample(state_history.trajectory[k].samples).value # species[i].value

\* C36: removeSpecies(X) for an id X that is no registered species changes
\* nothing: the species, the live instances and the Model, its length and
\* every entry, are as before.
C36_RemoveUnknownSpeciesIsNoOp ==
    [][(RemoveSpecies /\ last'.id \notin Range(Ids(species))) =>
          /\ SpeciesView' = SpeciesView
          /\ InstancesView' = InstancesView
          /\ model' = model]_vars

\* The Model holds, for every species, the evaluator of its rate law.
ModelCompiled ==
    /\ Len(model) = Len(species)
    /\ \A i \in 1..Len(species) : model[i] = CompiledRateLaw(i)

\* C37: removeSpecies(X) of a registered species X on a System whose Model
\* is compiled keeps the Model in the order of the species: every species
\* that remains finds at its new index the entry it had at its old one, and
\* the Model has no other entry.
C37_ModelFollowsSpecies ==
    [][(RemoveSpecies /\ ModelCompiled /\ last'.id \in Range(Ids(species))) =>
          /\ Len(model') = Len(species')
          /\ \A j \in 1..Len(species') :
                model'[j] = model[IndexOf(Ids(species), species'[j].id)]]_vars

\* X was removed from before b, whose entry is the evaluator of a rate law
C37_EntryMovedUp ==
    /\ last.op = "removeSpecies" /\ last.id = "X"
    /\ Ids(species) = <<"b">>
    /\ Len(model) = 1
    /\ model[1].type = "OperatorNode"

\* C38: addSpecies with an id that is registered replaces the record of
\* that species and nothing else: the species are as many as before and in
\* the same order, and the Model entry of every other species is the entry
\* it was.
C38_ReAddReplacesOneRecord ==
    [][(AddSpecies /\ last'.id \in Range(Ids(species))) =>
          /\ Ids(species') = Ids(species)
          /\ \A j \in 1..Len(species) :
                species[j].id # last'.id =>
                   /\ SpeciesView'[j] = SpeciesView[j]
                   /\ j <= Len(model) => (j <= Len(model') /\ model'[j] = model[j])]_vars

\* The species that no live instance has a rule with an expression for.
WithoutTerm(S) ==
    {i \in 1..Len(S.species) :
        \A k \in 1..Len(S.instances) : \A r \in 1..Len(S.instances[k].rules) :
            S.instances[k].rules[r].key = S.species[i].id
                => S.instances[k].rules[r].expression = NULL}

\* C39: a template rule that was never given an expression is passed over:
\* parameters() of the template holds the names of the rules that are set
\* and no other, an instance of the template is accepted and its rule for
\* the species bound to the unset rule has no expression, and compile()
\* gives a species for which no instance has an expression no rate law and
\* the Model entry 0.
C39_UnsetRuleIsSkipped ==
    /\ [](parameters_(heap, interactions["pair"]) = <<"u", "k">>)
    /\ [][/\ (AddInteraction(CallsUnset, MaxInstancesSys) /\ last'.id = "pair") =>
               /\ last'.result = "ok"
               /\ Len(_interactions') = Len(_interactions) + 1
               /\ LET rules == _interactions'[Len(_interactions')].rules
                  IN /\ Len(rules) = 2
                     /\ rules[1].key = last'.v_args[1] /\ rules[1].expression # NULL
                     /\ rules[2].key = last'.v_args[2] /\ rules[2].expression = NULL
          /\ Compile =>
               /\ last'.result = "ok"
               /\ \A i \in 1..Len(species) :
                     IF i \in WithoutTerm(Cur)
                     THEN species'[i].rate_law = NULL /\ model'[i] = parse(<<"0">>)
                     ELSE species'[i].rate_law # NULL]_vars

\* compile has run over an instance of 'pair' alone: b, bound to the rule
\* that is not set, has no rate law, and X has one
C39_CompiledWithUnsetRule ==
    /\ last.op = "compile" /\ last.result = "ok"
    /\ Len(_interactions) = 1 /\ _interactions[1].name = "pair"
    /\ _interactions[1].rules[1].key = "X"
    /\ species[1].rate_law # NULL
    /\ species[2].rate_law = NULL
    /\ model[2] = parse(<<"0">>)

====
